---- MODULE Spec2Model ----
(***************************************************************************)
(* A model of the flow controller of src/sedna.js (class Sedna): the scene *)
(* registry, goto / call / menu / start and the promise chains they build. *)
(*                                                                         *)
(* Every external call of start(), goto(id), call(id) or menu(options) is  *)
(* a task.  A task is the chain of async frames that call created: each    *)
(* frame awaits exactly one thing (a nested frame, the scene's logic, the  *)
(* renderer's onMenu, the reserved menu entry), so the chain is a stack.   *)
(* One action is one run-to-the-next-await of the JavaScript: everything   *)
(* the code does synchronously between two awaits happens in one step.     *)
(*                                                                         *)
(* The three hooks are taken as configured (onSceneChange and onFinish are *)
(* functions that return normally); scene logic and the reserved menu      *)
(* entry settle without throwing.  The log of a task records what the      *)
(* controller did on its behalf, in order.                                 *)
(***************************************************************************)
EXTENDS Naturals, Sequences, FiniteSets

(* ----------------------------- bounds -------------------------------- *)

\* goto() entries one task may make (caps scene -> scene -> ... chains).
MaxGotos == 3

\* Character objects one story may create (the narrator included).
MaxChars == 3

\* scene() calls made after construction.
MaxRegs == 2

(* ----------------------------- values -------------------------------- *)

\* JavaScript values, by what typeof / truthiness / == undefined see.
Undef == [t |-> "undefined", v |-> ""]
Null == [t |-> "object", v |-> "null"]
Str(s) == [t |-> "string", v |-> s]
Num(n) == [t |-> "number", v |-> n]
Bool(b) == [t |-> "boolean", v |-> b]
Obj(d) == [t |-> "object", v |-> d]
Fn(f) == [t |-> "function", v |-> f]

\* The awaited promise of the top frame has not settled.
NoRet == [t |-> "pending", v |-> ""]

\* typeof x === "string"
IsString(x) == x.t = "string"

\* if (x)
Truthy(x) ==
    CASE x.t = "undefined" -> FALSE
      [] x.t = "string" -> x.v # ""
      [] x.t = "number" -> x.v # "0"
      [] x.t = "boolean" -> x.v = "true"
      [] x.t = "object" -> x.v # "null"
      [] OTHER -> TRUE

\* x != undefined  (loose: null == undefined)
NotUndefined(x) == ~(x.t = "undefined" \/ x = Null)

(* --------------------------- the universe ---------------------------- *)

\* Identifiers scenes are registered under.
Registered == {"start", "a"}

\* An identifier nobody registered.
Unregistered == {"nowhere"}

\* Identifiers nobody registered that name a member of Object.prototype:
\* this.scenes is an object literal, so this.scenes[id] finds them.
ProtoIds == {"hasOwnProperty"}

Ids == Registered \cup Unregistered \cup ProtoIds

\* Scene logics: the one config.scenes gives every scene, and another.
Logics == {"fn", "fn2"}

\* Menu descriptor objects of the story.
Descs == {"d1"}

\* What a descriptor's own "_" property holds: nothing, a function, another value.
ThenKinds == {"none", "fn", "lit"}

\* What a scene's logic may return.
SceneResults ==
    {Undef, Null, Num("0"), Num("5")} \cup {Str(s) : s \in Ids} \cup {Obj(d) : d \in Descs}

\* What the renderer's onMenu may resolve to.
MenuResults ==
    {Undef, Null, Num("0"), Num("5")} \cup {Str(s) : s \in Ids} \cup {Obj(d) : d \in Descs}

\* External calls that may be in flight together.
Tasks == {1, 2}

VARIABLES
    tasks,      \* [Tasks -> task]: the chains of async frames in flight
    scenes,     \* this.scenes: own properties, id -> a logic | "absent"
    menus,      \* the "_" property of each menu descriptor object
    onError,    \* "default" (config.onError absent: throws) | "swallow"
    hasOnMenu,  \* whether the renderer implements onMenu
    hasOnMessage, \* whether the renderer implements onMessage
    regs,       \* every scene registration so far, in order (history)
    story       \* the character side of the story: registries, objects, narrator

vars == <<tasks, scenes, menus, onError, hasOnMenu, hasOnMessage, regs, story>>

(* ----------------------------- frames -------------------------------- *)

Frame(fn, pc, arg, thenOpt, rv) ==
    [fn |-> fn, pc |-> pc, arg |-> arg, thenOpt |-> thenOpt, rv |-> rv]

IdleTask ==
    [op |-> "idle", arg |-> Undef, stack |-> <<>>, ret |-> NoRet,
     out |-> "idle", val |-> Undef, log |-> <<>>]

Top(ts) == ts.stack[Len(ts.stack)]

HasTop(ts, fn, pcs) ==
    /\ Len(ts.stack) > 0
    /\ Top(ts).fn = fn
    /\ Top(ts).pc \in pcs

\* A world is what one synchronous run of the code reads and writes:
\* the running task and the heap of menu descriptors.
World(t) == [task |-> tasks[t], menus |-> menus]

Emit(w, e, a) == [w EXCEPT !.task.log = Append(@, [e |-> e, a |-> a])]

Push(w, f) == [w EXCEPT !.task.stack = Append(@, f), !.task.ret = NoRet]

SetTop(w, pc) ==
    [w EXCEPT !.task.stack[Len(w.task.stack)].pc = pc, !.task.ret = NoRet]

Count(log, e) == Cardinality({i \in 1 .. Len(log) : log[i].e = e})

(* ------------------------ settling a frame --------------------------- *)

\* The top frame's async function returns v: its promise fulfils and the
\* frame awaiting it (or the external caller) receives v.
Resolve(w, v) ==
    LET s == w.task.stack
        rest == SubSeq(s, 1, Len(s) - 1)
    IN  IF rest = <<>>
        THEN [w EXCEPT !.task.stack = <<>>, !.task.ret = NoRet,
                       !.task.out = "fulfilled", !.task.val = v]
        ELSE [w EXCEPT !.task.stack = rest, !.task.ret = v]

\* An exception thrown in the top frame: no frame of the controller has a
\* try/catch, so every awaiting frame rejects in turn and the rejection
\* reaches the external caller (start() attaches no rejection handler, so
\* its .then callback is skipped).
Reject(w, why) ==
    [w EXCEPT !.task.stack = <<>>, !.task.ret = NoRet,
              !.task.out = "rejected", !.task.val = [t |-> "error", v |-> why]]

\* The default error hook throws; a configured one is taken to return.
OnErrorThrows == onError = "default"

\* A faulty variant: the throw of the error hook is caught and dropped, and
\* the caller carries on as after a hook that returns.
ReportErrorContinue(w, kind) == Resolve(Emit(w, "error", Str(kind)), Undef)

\* this.onError(message), followed by what the caller does when it returns.
ReportError(w, kind) ==
    LET w1 == Emit(w, "error", Str(kind))
    IN  IF OnErrorThrows THEN Reject(w1, "onError") ELSE Resolve(w1, Undef)

(* ----------------------------- Sedna --------------------------------- *)

\* this.scenes[id]: the registered logic, or what Object.prototype has
\* under that name, or undefined.
SceneGet(id) ==
    IF scenes[id] # "absent" THEN Fn(scenes[id])
    ELSE IF id \in ProtoIds THEN Fn("native")
    ELSE Undef

\* A faulty variant: call() invokes the scene's logic twice (once to probe
\* the result, once awaited), so two runs of it are in progress.
CallEnterTwice(w, id) ==
    Emit(Emit(Push(w, Frame("call", "scene", Str(id), "none", Undef)),
              "begin", Str(id)), "begin", Str(id))

\* call(id), up to its await: invokes this.scenes[id](...) unchecked.
CallEnter(w, id) ==
    LET f == SceneGet(id)
        w1 == Push(w, Frame("call", "scene", Str(id), "none", Undef))
    IN  IF f.t # "function"
        THEN Reject(Emit(w, "typeerror", Str(id)), "TypeError")
        ELSE IF f = Fn("native")
        THEN \* Object.prototype.hasOwnProperty.call(this.scenes, {...}) is false
             Resolve(Emit(w1, "native", Str(id)), Bool("false"))
        ELSE Emit(Emit(w1, "begin", Str(id)), "invoke", f)

\* A faulty variant: on a missing scene goto() calls the error hook and then
\* waits on a promise nothing settles.
GotoEnterStuck(w, id) ==
    LET w1 == Emit(Push(w, Frame("goto", "call", Str(id), "none", Undef)), "goto", Str(id))
    IN  IF ~Truthy(SceneGet(id))
        THEN Emit(w1, "error", Str("MissingScene"))
        ELSE CallEnter(w1, id)

\* goto(id), up to its first await.
GotoEnter(w, id) ==
    LET w1 == Emit(Push(w, Frame("goto", "call", Str(id), "none", Undef)), "goto", Str(id))
    IN  IF ~Truthy(SceneGet(id))
        THEN ReportError(w1, "MissingScene")
        ELSE CallEnter(w1, id)

\* A faulty variant: menu() calls this.renderer.onMenu(options) without the
\* optional chaining, so an absent onMenu is a TypeError.
MenuEnterUnguarded(w, options) ==
    LET isDesc == options.t = "object" /\ options.v \in Descs
        thenOption == IF isDesc THEN w.menus[options.v] ELSE "none"
        w1 == IF isDesc THEN [w EXCEPT !.menus[options.v] = "none"] ELSE w
        w2 == Emit(Push(w1, Frame("menu", "onMenu", options, thenOption, Undef)),
                   "menu", Str(thenOption))
    IN  IF hasOnMenu
        THEN Emit(w2, "onMenu", options)
        ELSE Reject(Emit(w2, "typeerror", Str("onMenu")), "TypeError")

\* menu(options), up to its first await.
MenuEnter(w, options) ==
    LET isDesc == options.t = "object" /\ options.v \in Descs
        thenOption == IF isDesc THEN w.menus[options.v] ELSE "none"
        w1 == IF isDesc THEN [w EXCEPT !.menus[options.v] = "none"] ELSE w
        w2 == Emit(Push(w1, Frame("menu", "onMenu", options, thenOption, Undef)),
                   "menu", Str(thenOption))
    IN  IF hasOnMenu
        THEN Emit(w2, "onMenu", options)
        ELSE [w2 EXCEPT !.task.ret = Undef]

\* A faulty variant: "else if (returnValue)" instead of "!= undefined", so a
\* falsy value such as 0 is taken for no value.
MenuInterpretTruthy(w) ==
    LET returnValue == Top(w.task).rv
    IN  IF IsString(returnValue)
        THEN GotoEnter(SetTop(w, "goto"), returnValue.v)
        ELSE IF Truthy(returnValue)
        THEN ReportError(w, "InvalidMenuResult")
        ELSE Resolve(w, Undef)

\* menu(), from "if (typeof returnValue === "string")" on.
MenuInterpret(w) ==
    LET returnValue == Top(w.task).rv
    IN  IF IsString(returnValue)
        THEN GotoEnter(SetTop(w, "goto"), returnValue.v)
        ELSE IF NotUndefined(returnValue)
        THEN ReportError(w, "InvalidMenuResult")
        ELSE Resolve(w, Undef)

\* A faulty variant: a string result is navigated to at once, and the
\* reserved entry runs only for the other results.
MenuAfterOnMenuEarly(w) ==
    LET returnValue == w.task.ret
        w1 == Emit([w EXCEPT !.task.stack[Len(w.task.stack)].rv = returnValue,
                             !.task.ret = NoRet],
                   "resolve", returnValue)
    IN  IF Top(w.task).thenOpt = "fn" /\ ~IsString(returnValue)
        THEN Emit(SetTop(w1, "then"), "then_begin", Undef)
        ELSE MenuInterpret(w1)

\* menu(), resumed with the value of "await this.renderer.onMenu?.(options)".
MenuAfterOnMenu(w) ==
    LET returnValue == w.task.ret
        w1 == Emit([w EXCEPT !.task.stack[Len(w.task.stack)].rv = returnValue,
                             !.task.ret = NoRet],
                   "resolve", returnValue)
    IN  IF Top(w.task).thenOpt = "fn"
        THEN Emit(SetTop(w1, "then"), "then_begin", Undef)
        ELSE MenuInterpret(w1)

\* menu(), resumed after "await thenOption()".
MenuAfterThen(w) == MenuInterpret(Emit(w, "then_settle", Undef))

\* A faulty variant: goto() forgets the scene-changed hook.
GotoInterpretNoHook(w) ==
    LET returnValue == w.task.ret
    IN  IF IsString(returnValue)
        THEN GotoEnter(SetTop(w, "goto"), returnValue.v)
        ELSE IF Truthy(returnValue)
        THEN MenuEnter(SetTop(w, "menu"), returnValue)
        ELSE Resolve(w, Undef)

\* A faulty variant: goto() enters the next scene first and calls the
\* scene-changed hook afterwards.
GotoInterpretLateHook(w) ==
    LET returnValue == w.task.ret
    IN  IF IsString(returnValue)
        THEN Emit(GotoEnter(SetTop(w, "goto"), returnValue.v), "changed", Undef)
        ELSE IF Truthy(returnValue)
        THEN MenuEnter(SetTop(w, "menu"), returnValue)
        ELSE Resolve(w, Undef)

\* goto(), resumed with the value of "await this.call(id)".
GotoInterpret(w) ==
    LET returnValue == w.task.ret
    IN  IF IsString(returnValue)
        THEN GotoEnter(Emit(SetTop(w, "goto"), "changed", Undef), returnValue.v)
        ELSE IF Truthy(returnValue)
        THEN MenuEnter(SetTop(w, "menu"), returnValue)
        ELSE Resolve(w, Undef)

\* start(), once the promise of goto("start") has fulfilled.
StartThen(w) == Resolve(Emit(w, "finish", Undef), Undef)

\* A faulty variant: start() calls the finished hook as soon as goto()
\* has returned its promise, not when the promise fulfils.
StartEnterEager(w) ==
    Emit(GotoEnter(Push(w, Frame("start", "goto", Undef, "none", Undef)), "start"),
         "finish", Undef)

\* start(), the synchronous part.
StartEnter(w) ==
    GotoEnter(Push(w, Frame("start", "goto", Undef, "none", Undef)), "start")

(* --------------------------- characters ------------------------------ *)

\* Character identifiers: the narrator's ("n", src line 202) and another.
CharIds == {"n", "p"}

\* What a data mapping holds under one key (say data.age).
DataVals == {0, 1}

\* The story before its constructor has run.  objs, handles and datas are
\* the heaps of SednaCharacter objects, of the functions asFunction() makes
\* and of data mappings; a reference is an index, 0 is undefined.
Unbuilt ==
    [built |-> "no", rendererOpt |-> "none", renderer |-> "none", errors |-> 0,
     objs |-> <<>>, handles |-> <<>>, datas |-> <<>>,
     characters |-> [i \in CharIds |-> 0],
     characterFunctions |-> [i \in CharIds |-> 0],
     narrator |-> 0,
     said |-> [via |-> 0, who |-> 0, result |-> "none"]]

\* A data argument: 0 is a new object ({} or a literal), d > 0 an existing one.
DataRef(st, d) == IF d = 0 THEN Len(st.datas) + 1 ELSE d

WithData(st, d) == IF d = 0 THEN [st EXCEPT !.datas = Append(@, 0)] ELSE st

\* new SednaCharacter(story, id, name, data)
NewCharacter(st, id, name, d) ==
    [st EXCEPT !.objs = Append(@, [id |-> id, name |-> name, data |-> d, functionLike |-> 0])]

\* A faulty variant: asFunction() gives the handle a copy of the data
\* mapping ({...this.data}) instead of the mapping itself.
AsFunctionCopy(st, k) ==
    IF st.objs[k].functionLike # 0
    THEN st
    ELSE [st EXCEPT !.datas = Append(@, st.datas[st.objs[k].data]),
                    !.handles = Append(@, [this |-> k, data |-> Len(st.datas) + 1,
                                           character |-> k]),
                    !.objs[k].functionLike = Len(st.handles) + 1]

\* SednaCharacter.asFunction() of object k.
AsFunction(st, k) ==
    IF st.objs[k].functionLike # 0
    THEN st
    ELSE [st EXCEPT !.handles = Append(@, [this |-> k, data |-> st.objs[k].data, character |-> k]),
                    !.objs[k].functionLike = Len(st.handles) + 1]

\* Sedna.character(id, name, data); the new object is the last of objs.
Character(st, id, name, d) ==
    LET ref == DataRef(st, d)
        st1 == NewCharacter(WithData(st, d), id, name, ref)
        k == Len(st1.objs)
        st2 == [st1 EXCEPT !.characters[id] = k]
        st3 == AsFunction(st2, st2.characters[id])
    IN  [st3 EXCEPT !.characterFunctions[id] = st3.objs[st3.characters[id]].functionLike]

\* The renderer options a story may be constructed with: none, a
\* SednaRenderer instance, a configuration object, a configuration object
\* naming a renderer class under "type", a number, null.
RendererOpts == {"undefined", "instance", "config", "typed", "number", "null"}

\* Options that are neither a renderer instance nor a configuration.
InvalidRendererOpts == {"number", "null"}

\* Line 198: the renderer chosen, or "TypeError" when the HTML renderer's
\* constructor throws (null.container; the default {} stands in only for
\* undefined).
SelectRenderer(opt) ==
    CASE opt = "instance" -> "given"
      [] opt = "null" -> "TypeError"
      [] OTHER -> "html"

\* The constructor's loop over config.characters, ids in order.
RECURSIVE BulkCharacters(_, _)
BulkCharacters(st, ids) ==
    IF ids = <<>> THEN st
    ELSE BulkCharacters(Character(st, Head(ids), "???", 0), Tail(ids))

\* new Sedna(config): renderer, narrator, config.characters.
Construct(opt, ids) ==
    LET r == SelectRenderer(opt)
        st0 == [Unbuilt EXCEPT !.rendererOpt = opt, !.renderer = r]
        st1 == Character(st0, "n", "Narrator", 0)
        st2 == [st1 EXCEPT !.narrator = st1.characters["n"]]
    IN  IF r = "TypeError"
        THEN [st0 EXCEPT !.built = "threw"]
        ELSE [BulkCharacters(st2, ids) EXCEPT !.built = "yes"]

\* characters[id].data.age = v: the mapping is written in place.
SetData(st, id, v) == [st EXCEPT !.datas[st.objs[st.characters[id]].data] = v]

\* What tagged use (n`...`) and plain use (n("...")) hand to say().
MessageKinds == {"template", "string"}

\* A faulty variant: say() looks the speaker up in the registry by id.
SayCurrent(st, h, kind) ==
    LET who == st.characters[st.objs[st.handles[h].this].id]
    IN  [st EXCEPT !.said =
            IF ~hasOnMessage THEN [via |-> h, who |-> 0, result |-> "undefined"]
            ELSE IF kind = "string" THEN [via |-> h, who |-> 0, result |-> "TypeError"]
            ELSE [via |-> h, who |-> who, result |-> "rendered"]]

\* SednaCharacter.say through handle h: the bound this is the speaker.
\* Without onMessage the optional call yields undefined and its argument
\* is not evaluated; with it, String.raw throws on a plain string.
Say(st, h, kind) ==
    LET who == st.handles[h].this
    IN  [st EXCEPT !.said =
            IF ~hasOnMessage THEN [via |-> h, who |-> 0, result |-> "undefined"]
            ELSE IF kind = "string" THEN [via |-> h, who |-> 0, result |-> "TypeError"]
            ELSE [via |-> h, who |-> who, result |-> "rendered"]]

\* A faulty variant: scene() keeps the logic an identifier already has.
SceneRegisterOnce(sc, id, func) ==
    IF sc[id] = "absent" THEN [sc EXCEPT ![id] = func] ELSE sc

\* The scene registry after scene(id, func).
SceneRegister(sc, id, func) == [sc EXCEPT ![id] = func]

(* ----------------------------- actions ------------------------------- *)

Commit(t, w) ==
    /\ tasks' = [tasks EXCEPT ![t] = w.task]
    /\ menus' = w.menus
    /\ UNCHANGED <<scenes, onError, hasOnMenu, hasOnMessage, regs, story>>

Launch(t, op, arg) ==
    [World(t) EXCEPT !.task.op = op, !.task.arg = arg, !.task.out = "pending"]

\* story.start()
Start(t) ==
    /\ tasks[t].op = "idle"
    /\ Commit(t, StartEnter(Launch(t, "start", Undef)))

\* story.goto(id)
Goto(t, id) ==
    /\ tasks[t].op = "idle"
    /\ Commit(t, GotoEnter(Launch(t, "goto", Str(id)), id))

\* A faulty variant: call(id) is routed through goto(id), which interprets
\* the scene's result.
CallAsGoto(t, id) ==
    /\ tasks[t].op = "idle"
    /\ Commit(t, GotoEnter(Launch(t, "call", Str(id)), id))

\* story.call(id)
Call(t, id) ==
    /\ tasks[t].op = "idle"
    /\ Commit(t, CallEnter(Launch(t, "call", Str(id)), id))

\* story.menu(options)
Menu(t, options) ==
    /\ tasks[t].op = "idle"
    /\ Commit(t, MenuEnter(Launch(t, "menu", options), options))

\* A string result leads to another goto(): the chain is cut at MaxGotos.
Within(t, v) == IsString(v) => Count(tasks[t].log, "goto") < MaxGotos

\* The scene's logic settles with v; call() returns it.
SceneSettle(t, v) ==
    /\ HasTop(tasks[t], "call", {"scene"})
    /\ Within(t, v)
    /\ Commit(t, Resolve(Emit(World(t), "settle", v), v))

\* goto() resumes after call().
GotoAfterCall(t) ==
    /\ HasTop(tasks[t], "goto", {"call"})
    /\ tasks[t].ret # NoRet
    /\ Commit(t, GotoInterpret(World(t)))

\* goto() resumes after the nested goto() or menu() and returns.
GotoReturn(t) ==
    /\ HasTop(tasks[t], "goto", {"goto", "menu"})
    /\ tasks[t].ret # NoRet
    /\ Commit(t, Resolve(World(t), Undef))

\* The renderer resolves the promise onMenu returned.
RendererResolve(t, v) ==
    /\ HasTop(tasks[t], "menu", {"onMenu"})
    /\ hasOnMenu
    /\ tasks[t].ret = NoRet
    /\ Within(t, v)
    /\ Commit(t, [World(t) EXCEPT !.task.ret = v])

\* menu() resumes after onMenu.
MenuResume(t) ==
    /\ HasTop(tasks[t], "menu", {"onMenu"})
    /\ tasks[t].ret # NoRet
    /\ Commit(t, MenuAfterOnMenu(World(t)))

\* The reserved entry settles; menu() resumes.
ThenSettle(t) ==
    /\ HasTop(tasks[t], "menu", {"then"})
    /\ Commit(t, MenuAfterThen(World(t)))

\* menu() resumes after goto() and returns.
MenuReturn(t) ==
    /\ HasTop(tasks[t], "menu", {"goto"})
    /\ tasks[t].ret # NoRet
    /\ Commit(t, Resolve(World(t), Undef))

\* The .then callback of start() runs.
StartFinish(t) ==
    /\ HasTop(tasks[t], "start", {"goto"})
    /\ tasks[t].ret # NoRet
    /\ Commit(t, StartThen(World(t)))

(* -------------------------- specifications --------------------------- *)

\* config.scenes, registered by the constructor in order.
ConfigScenes == <<[id |-> "a", func |-> "fn"], [id |-> "start", func |-> "fn"]>>

Init ==
    /\ tasks = [t \in Tasks |-> IdleTask]
    /\ scenes = [id \in Ids |-> IF id \in Registered THEN "fn" ELSE "absent"]
    /\ menus \in [Descs -> ThenKinds]
    /\ onError \in {"default", "swallow"}
    /\ hasOnMenu \in BOOLEAN
    /\ hasOnMessage = TRUE
    /\ regs = ConfigScenes
    /\ story = Construct("instance", <<>>)

\* One external call, every input.
Next ==
    \E t \in {1} :
        \/ Start(t)
        \/ \E id \in Ids : Goto(t, id)
        \/ \E id \in Ids : Call(t, id)
        \/ \E o \in {Obj(d) : d \in Descs} : Menu(t, o)
        \/ \E v \in SceneResults : SceneSettle(t, v)
        \/ GotoAfterCall(t)
        \/ GotoReturn(t)
        \/ \E v \in MenuResults : RendererResolve(t, v)
        \/ MenuResume(t)
        \/ ThenSettle(t)
        \/ MenuReturn(t)
        \/ StartFinish(t)

Spec == Init /\ [][Next]_vars

\* What scenes return and menus resolve to when calls overlap.
ConcSceneResults == {Undef, Str("a"), Obj("d1")}

ConcMenuResults == {Undef, Str("a")}

\* start() and goto() calls made while others are suspended in a scene or a menu.
NextConc ==
    \E t \in Tasks :
        \/ Start(t)
        \/ Goto(t, "a")
        \/ \E v \in ConcSceneResults : SceneSettle(t, v)
        \/ GotoAfterCall(t)
        \/ GotoReturn(t)
        \/ \E v \in ConcMenuResults : RendererResolve(t, v)
        \/ MenuResume(t)
        \/ ThenSettle(t)
        \/ MenuReturn(t)
        \/ StartFinish(t)

\* A story whose renderer implements onMenu and whose menu has a "_" function.
InitConc ==
    /\ Init
    /\ hasOnMenu
    /\ menus = [d \in Descs |-> "fn"]

SpecConc == InitConc /\ [][NextConc]_vars

\* The flow side stays as constructed.
FlowIdle == UNCHANGED <<tasks, scenes, menus, onError, hasOnMenu, hasOnMessage, regs>>

\* new Sedna({renderer: opt, characters: {...ids}})
Build(opt, ids) ==
    /\ story.built = "no"
    /\ story' = Construct(opt, ids)
    /\ FlowIdle

\* story.character(id, "???", data)
RegisterCharacter(id, d) ==
    /\ story.built = "yes"
    /\ Len(story.objs) < MaxChars
    /\ d \in 0 .. Len(story.datas)
    /\ story' = Character(story, id, "???", d)
    /\ FlowIdle

\* story.characters[id].data.age = v
MutateData(id, v) ==
    /\ story.built = "yes"
    /\ story.characters[id] # 0
    /\ story' = SetData(story, id, v)
    /\ FlowIdle

\* A handle made at any time before is called: h`...` or h("...").
Speak(h, kind) ==
    /\ story.built = "yes"
    /\ h \in 1 .. Len(story.handles)
    /\ story' = Say(story, h, kind)
    /\ FlowIdle

\* The characters options a story may be constructed with.
BulkOpts == {<<>>, <<"p">>, <<"n">>, <<"n", "p">>}

InitStory ==
    /\ tasks = [t \in Tasks |-> IdleTask]
    /\ scenes = [id \in Ids |-> IF id \in Registered THEN "fn" ELSE "absent"]
    /\ menus = [d \in Descs |-> "fn"]
    /\ onError \in {"default", "swallow"}
    /\ hasOnMenu = TRUE
    /\ hasOnMessage \in BOOLEAN
    /\ regs = ConfigScenes
    /\ story = Unbuilt

\* Construction, then registrations, data writes and speech in any order.
NextStory ==
    \/ \E opt \in RendererOpts, ids \in BulkOpts : Build(opt, ids)
    \/ \E id \in CharIds, d \in 0 .. MaxChars : RegisterCharacter(id, d)
    \/ \E id \in CharIds, v \in DataVals : MutateData(id, v)
    \/ \E h \in 1 .. MaxChars, kind \in MessageKinds : Speak(h, kind)

SpecStory == InitStory /\ [][NextStory]_vars

\* A story whose renderer implements no onMenu, and onMessage or not.
InitRenderer ==
    /\ tasks = [t \in Tasks |-> IdleTask]
    /\ scenes = [id \in Ids |-> IF id \in Registered THEN "fn" ELSE "absent"]
    /\ menus \in [Descs -> ThenKinds]
    /\ onError \in {"default", "swallow"}
    /\ hasOnMenu = FALSE
    /\ hasOnMessage \in BOOLEAN
    /\ regs = ConfigScenes
    /\ story = Construct("instance", <<>>)

\* goto() and menu() run, with the menus scenes return, while characters speak.
NextRenderer ==
    \/ \E h \in 1 .. MaxChars, kind \in MessageKinds :
           Speak(h, kind)
    \/ \E t \in {1} :
           \/ \E id \in Ids : Goto(t, id)
           \/ \E o \in {Obj(d) : d \in Descs} : Menu(t, o)
           \/ \E v \in SceneResults : SceneSettle(t, v)
           \/ GotoAfterCall(t)
           \/ GotoReturn(t)
           \/ MenuResume(t)
           \/ ThenSettle(t)

SpecRenderer == InitRenderer /\ [][NextRenderer]_vars

\* One start(), and the steps that carry it on.
Step(t) ==
    \/ \E v \in SceneResults : SceneSettle(t, v)
    \/ GotoAfterCall(t)
    \/ GotoReturn(t)
    \/ \E v \in MenuResults : RendererResolve(t, v)
    \/ MenuResume(t)
    \/ ThenSettle(t)
    \/ MenuReturn(t)
    \/ StartFinish(t)

NextLive == \E t \in {1} : Start(t) \/ Step(t)

\* Every scene's logic and reserved entry settles, the renderer resolves
\* every menu, and the job queue runs every continuation that is ready.
Fairness ==
    \A t \in {1} :
        /\ WF_vars(\E v \in SceneResults : SceneSettle(t, v))
        /\ WF_vars(\E v \in MenuResults : RendererResolve(t, v))
        /\ WF_vars(ThenSettle(t))
        /\ WF_vars(GotoAfterCall(t))
        /\ WF_vars(GotoReturn(t))
        /\ WF_vars(MenuResume(t))
        /\ WF_vars(MenuReturn(t))
        /\ WF_vars(StartFinish(t))

SpecLive == Init /\ [][NextLive]_vars /\ Fairness

\* story.scene(id, func), at any time after construction.
RegisterScene(id, func) ==
    /\ Len(regs) < Len(ConfigScenes) + MaxRegs
    /\ scenes' = SceneRegister(scenes, id, func)
    /\ regs' = Append(regs, [id |-> id, func |-> func])
    /\ UNCHANGED <<tasks, menus, onError, hasOnMenu, hasOnMessage, story>>

\* What scenes return while the registry changes.
RegSceneResults == {Undef} \cup {Str(s) : s \in Registered \cup Unregistered}

InitReg ==
    /\ Init
    /\ hasOnMenu
    /\ menus = [d \in Descs |-> "none"]

\* Navigation with scene() calls in between.
NextReg ==
    \/ \E id \in Registered \cup Unregistered, func \in Logics : RegisterScene(id, func)
    \/ \E t \in {1} :
        \/ Start(t)
        \/ \E id \in Registered \cup Unregistered : Goto(t, id)
        \/ \E v \in RegSceneResults : SceneSettle(t, v)
        \/ GotoAfterCall(t)
        \/ GotoReturn(t)
        \/ StartFinish(t)

SpecReg == InitReg /\ [][NextReg]_vars

(* ------------------------------ claims ------------------------------- *)

Log(t) == tasks[t].log

Has(log, e) == \E i \in 1 .. Len(log) : log[i].e = e

\* JavaScript's "no value": undefined or null.
Absent(x) == x = Undef \/ x = Null

\* The scene logic of a task that has begun and not yet settled.
InProgress(t) == Count(Log(t), "begin") - Count(Log(t), "settle")

\* The "_" entry the menu() call that received log[i] started with.
ThenKindAt(log, i) ==
    LET ms == {k \in 1 .. i : log[k].e = "menu"}
        m == CHOOSE k \in ms : \A j \in ms : j <= k
    IN  log[m].a.v

\* A start() whose scenes so far each returned a registered identifier or nothing.
ChainRun(t) ==
    /\ tasks[t].op = "start"
    /\ \A i \in 1 .. Len(Log(t)) :
          Log(t)[i].e = "settle" =>
              \/ Log(t)[i].a = Undef
              \/ IsString(Log(t)[i].a) /\ Log(t)[i].a.v \in Registered

\* C1: a start() over a chain of n registered scenes, each returning the
\* next one's identifier and the last returning nothing, fires the
\* scene-changed hook n-1 times and the finished hook once, after the last
\* scene has settled, and never calls the error hook.
C1_ChainHooks ==
    \A t \in Tasks :
        ChainRun(t) =>
            LET log == Log(t)
                n == Count(log, "begin")
            IN  /\ n >= 1
                /\ Count(log, "changed") = n - 1
                /\ Count(log, "error") = 0
                /\ tasks[t].out \in {"pending", "fulfilled"}
                /\ Count(log, "finish") <= 1
                /\ (tasks[t].out = "fulfilled") = Has(log, "finish")
                /\ Has(log, "finish") =>
                      /\ log[Len(log)].e = "finish"
                      /\ log[Len(log) - 1] = [e |-> "settle", a |-> Undef]
                      /\ Count(log, "settle") = n

\* A chain start -> a -> start has come to rest and finished.
C1_Witness ==
    \E t \in Tasks :
        /\ ChainRun(t)
        /\ tasks[t].out = "fulfilled"
        /\ Count(Log(t), "begin") = 3
        /\ Count(Log(t), "changed") = 2

\* C2: when a menu resolves to a scene identifier, the scene-changed hook
\* fires for the transition, before that scene's logic begins.
C2_MenuSceneChange ==
    \A t \in Tasks :
        \A j \in 1 .. Len(Log(t)) :
            \A i \in j + 1 .. Len(Log(t)) :
                ( /\ Log(t)[j].e = "resolve"
                  /\ IsString(Log(t)[j].a)
                  /\ Log(t)[i].e = "begin"
                  /\ \A k \in j + 1 .. i - 1 : Log(t)[k].e \notin {"resolve", "settle", "begin"} )
                => \E k \in j + 1 .. i - 1 : Log(t)[k].e = "changed"

\* C3: in every resolution of a menu whose "_" entry is a function, the
\* entry runs exactly once, right after onMenu's value arrives and before
\* that value is interpreted (before any goto() and any error report).
C3_ReservedEntry ==
    \A t \in Tasks :
        LET log == Log(t)
        IN  /\ \A i \in 1 .. Len(log) :
                  (log[i].e = "resolve" /\ ThenKindAt(log, i) = "fn") =>
                      /\ Len(log) >= i + 1
                      /\ log[i + 1].e = "then_begin"
                      /\ Len(log) >= i + 2 => log[i + 2].e = "then_settle"
            /\ \A i \in 1 .. Len(log) :
                  log[i].e = "then_begin" =>
                      /\ i > 1
                      /\ log[i - 1].e = "resolve"
                      /\ ThenKindAt(log, i) = "fn"
            /\ \A i \in 1 .. Len(log) :
                  (log[i].e = "resolve" /\ hasOnMenu) => log[i - 1].e = "onMenu"

\* A menu with a "_" function resolved to a scene identifier, the entry ran
\* and settled, and only then the scene was entered.
C3_Witness ==
    \E t \in Tasks :
        \E i \in 1 .. Len(Log(t)) :
            /\ Log(t)[i].e = "resolve"
            /\ IsString(Log(t)[i].a)
            /\ Len(Log(t)) >= i + 4
            /\ Log(t)[i + 1].e = "then_begin"
            /\ Log(t)[i + 2].e = "then_settle"
            /\ Log(t)[i + 3].e = "goto"
            /\ Log(t)[i + 4].e = "begin"

\* C4: goto() of an unregistered identifier calls the error hook exactly
\* once, runs nothing and navigates no further; with a hook that returns,
\* the navigation returns at rest.
C4_MissingScene ==
    \A t \in Tasks :
        LET log == Log(t)
        IN  \A i \in 1 .. Len(log) :
                (log[i].e = "goto" /\ log[i].a.v \notin Registered) =>
                    /\ Len(log) >= i + 1
                    /\ log[i + 1].e = "error"
                    /\ \A k \in i + 2 .. Len(log) : log[k].e = "finish"
                    /\ ~OnErrorThrows => tasks[t].out # "rejected"

\* What C4 states does hold of identifiers that name no property at all,
\* own or inherited.
MissingSceneReported ==
    \A t \in Tasks :
        LET log == Log(t)
        IN  \A i \in 1 .. Len(log) :
                (log[i].e = "goto" /\ log[i].a.v \in Unregistered) =>
                    /\ Len(log) >= i + 1
                    /\ log[i + 1] = [e |-> "error", a |-> Str("MissingScene")]
                    /\ \A k \in i + 2 .. Len(log) : log[k].e = "finish"
                    /\ ~OnErrorThrows => tasks[t].out # "rejected"

\* C5: call(id) of an unregistered identifier reports the error through the
\* error hook and, when the hook returns, returns no value without failing.
C5_CallMissing ==
    \A t \in Tasks :
        (tasks[t].op = "call" /\ tasks[t].arg.v \notin Registered) =>
            /\ Count(Log(t), "error") = 1
            /\ ~OnErrorThrows => (tasks[t].out = "fulfilled" /\ tasks[t].val = Undef)

\* A scene result that is neither absent, nor a string, nor a menu descriptor.
InvalidSceneResult(x) == ~Absent(x) /\ ~IsString(x) /\ x \notin {Obj(d) : d \in Descs}

\* C6: when goto() runs a scene that returns such a value, the error hook
\* is called and the renderer's onMenu is not invoked for the value.
C6_InvalidSceneResult ==
    \A t \in Tasks :
        LET log == Log(t)
        IN  \A i \in 1 .. Len(log) :
                ( /\ tasks[t].op # "call"
                  /\ log[i].e = "settle"
                  /\ InvalidSceneResult(log[i].a) ) =>
                    /\ (Len(log) >= i + 1 \/ tasks[t].out # "pending") =>
                          (Len(log) >= i + 1 /\ log[i + 1].e = "error")
                    /\ \A k \in i + 1 .. Len(log) : log[k] # [e |-> "onMenu", a |-> log[i].a]

\* Where menu() begins to interpret the value received at log[i].
InterpretedAt(log, i) == IF ThenKindAt(log, i) = "fn" THEN i + 2 ELSE i

\* C7: a menu that resolves to a present non-string value calls the error
\* hook exactly once and navigates nowhere; one that resolves to no value
\* ends at rest without navigation and without an error.
C7_MenuResult ==
    \A t \in Tasks :
        LET log == Log(t)
        IN  \A i \in 1 .. Len(log) :
                (log[i].e = "resolve" /\ ~IsString(log[i].a)) =>
                    LET k == InterpretedAt(log, i)
                    IN  Len(log) >= k =>
                          IF Absent(log[i].a)
                          THEN \A m \in k + 1 .. Len(log) : log[m].e = "finish"
                          ELSE /\ Len(log) >= k + 1
                               /\ log[k + 1] = [e |-> "error", a |-> Str("InvalidMenuResult")]
                               /\ \A m \in k + 2 .. Len(log) : log[m].e = "finish"

\* onMenu resolved to 0 (present, falsy) and the error hook was called.
C7_Witness ==
    \E t \in Tasks :
        \E i \in 1 .. Len(Log(t)) :
            /\ Log(t)[i] = [e |-> "resolve", a |-> Num("0")]
            /\ Log(t)[Len(Log(t))].e = "error"
            /\ Count(Log(t), "error") = 1

\* C8: at most one scene's logic is in progress at any time in one story,
\* whatever start() and goto() calls overlap.
C8_OneSceneAtATime ==
    Cardinality({t \in Tasks : InProgress(t) >= 1}) <= 1 /\ \A t \in Tasks : InProgress(t) <= 1

\* C8, as the code has it: among the scenes the controller runs for one
\* start() or goto() call, at most one is in progress at any time.
C8_OneScenePerChain ==
    \A t \in Tasks :
        /\ InProgress(t) \in {0, 1}
        /\ InProgress(t) = 1 => HasTop(tasks[t], "call", {"scene"})

\* Two overlapping calls each have a scene in progress; one of them is in
\* its second scene.
C8_Witness ==
    /\ \A t \in Tasks : InProgress(t) = 1
    /\ \E t \in Tasks : Count(Log(t), "begin") >= 2

\* C9: a start() that mixes scenes, menus and menu-driven navigation and
\* meets no escalated error fires the finished hook exactly once, as the
\* last event of its chain.
C9_FinishLast ==
    \A t \in Tasks :
        tasks[t].op = "start" =>
            LET log == Log(t)
            IN  /\ Count(log, "finish") <= 1
                /\ Has(log, "finish") =>
                      /\ log[Len(log)].e = "finish"
                      /\ tasks[t].out = "fulfilled"
                      /\ tasks[t].stack = <<>>
                /\ tasks[t].out = "fulfilled" => Count(log, "finish") = 1

\* A start() went through a scene, a menu with a "_" entry, a scene the
\* menu led to, and finished.
C9_Witness ==
    \E t \in Tasks :
        /\ tasks[t].op = "start"
        /\ Has(Log(t), "finish")
        /\ Has(Log(t), "then_settle")
        /\ Has(Log(t), "changed")
        /\ \E i \in 3 .. Len(Log(t)) :
              /\ Log(t)[i].e = "begin"
              /\ Log(t)[i - 1].e = "goto"
              /\ Log(t)[i - 2].e \in {"resolve", "then_settle"}

\* C10: when the error hook raises, the chain is unwound: nothing more
\* runs in it, the failure reaches the caller, and a start() unwound this
\* way does not fire the finished hook.
C10_Escalation ==
    \A t \in Tasks :
        LET log == Log(t)
        IN  (OnErrorThrows /\ Has(log, "error")) =>
                /\ log[Len(log)].e = "error"
                /\ Count(log, "error") = 1
                /\ tasks[t].out = "rejected"
                /\ tasks[t].val = [t |-> "error", v |-> "onError"]
                /\ tasks[t].stack = <<>>
                /\ ~Has(log, "finish")

\* A start() ran two scenes, reached an error with the default hook and
\* was rejected.
C10_Witness ==
    \E t \in Tasks :
        /\ tasks[t].op = "start"
        /\ OnErrorThrows
        /\ Count(Log(t), "begin") >= 2
        /\ Has(Log(t), "error")
        /\ tasks[t].out = "rejected"

\* The handles made for a character that has since been replaced in the
\* registry.
ReplacedHandles ==
    {h \in 1 .. Len(story.handles) :
        story.characters[story.objs[story.handles[h].this].id] # story.handles[h].this}

\* The character now registered under the identifier handle h was made for.
CurrentOf(h) == story.characters[story.objs[story.handles[h].this].id]

\* A message was rendered through handle h.
SpokenVia(h) == story.said.via = h /\ story.said.result = "rendered"

\* C11: after re-registering an identifier, a handle obtained before
\* exposes the data of the character now registered (late-bound), while a
\* message spoken through it is attributed to the character it was made for.
C11_LateBoundHandle ==
    \A h \in ReplacedHandles :
        /\ story.handles[h].data = story.objs[CurrentOf(h)].data
        /\ SpokenVia(h) => story.said.who = story.handles[h].this

\* C11, as the code has it: the old handle keeps the data mapping and the
\* identity of the character it was made for, the registry holds another
\* handle, and a message spoken through the old one is attributed to the
\* old character.
C11_HandleKeepsCharacter ==
    \A h \in ReplacedHandles :
        LET c == story.handles[h].this
        IN  /\ story.handles[h].character = c
            /\ story.handles[h].data = story.objs[c].data
            /\ story.objs[c].functionLike = h
            /\ story.characterFunctions[story.objs[c].id] # h
            /\ SpokenVia(h) => (story.said.who = c /\ story.said.who # CurrentOf(h))

\* A replaced character's handle has spoken, and its data mapping is not
\* the one of the character now registered.
C11_Witness ==
    \E h \in ReplacedHandles :
        /\ SpokenVia(h)
        /\ story.handles[h].data # story.objs[CurrentOf(h)].data
        /\ story.datas[story.handles[h].data] # story.datas[story.objs[CurrentOf(h)].data]

\* The logic most recently registered under id ("absent" when none was).
MostRecent(id) ==
    LET ks == {k \in 1 .. Len(regs) : regs[k].id = id}
    IN  IF ks = {} THEN "absent"
        ELSE regs[CHOOSE k \in ks : \A j \in ks : j <= k].func

\* What one step appends to the log of task t.
NewEvents(t) == SubSeq(tasks'[t].log, Len(tasks[t].log) + 1, Len(tasks'[t].log))

\* C12: after any sequence of scene registrations, goto(id) of a registered
\* id runs the logic most recently registered under id, once, and no logic
\* registered under it earlier.
C12_CurrentLogic ==
    [][\A t \in Tasks :
          LET new == NewEvents(t)
          IN  \A i \in 1 .. Len(new) :
                  (new[i].e = "goto" /\ MostRecent(new[i].a.v) # "absent") =>
                      /\ Len(new) = i + 2
                      /\ new[i + 1] = [e |-> "begin", a |-> new[i].a]
                      /\ new[i + 2] = [e |-> "invoke", a |-> Fn(MostRecent(new[i].a.v))]
                      /\ Count(new, "begin") = 1
                      /\ Count(new, "invoke") = 1]_vars

\* A scene registered by config.scenes was registered again with another
\* logic, and goto() ran that one.
C12_Witness ==
    \E t \in Tasks :
        \E i \in 1 .. Len(Log(t)) :
            /\ Log(t)[i] = [e |-> "invoke", a |-> Fn("fn2")]
            /\ Log(t)[i - 1].a.v \in Registered
            /\ MostRecent(Log(t)[i - 1].a.v) = "fn2"

\* C13: after any registrations and in-place writes to registered
\* characters' data, the registry's handle of every registered identifier
\* is bound to the character now registered and its data is that
\* character's mapping itself, so a write through the registry entry shows
\* through the handle.
C13_RegistryHandle ==
    story.built = "yes" =>
        \A id \in CharIds :
            story.characters[id] # 0 =>
                LET c == story.characters[id]
                    h == story.characterFunctions[id]
                IN  /\ h \in 1 .. Len(story.handles)
                    /\ story.objs[c].id = id
                    /\ story.handles[h].this = c
                    /\ story.handles[h].character = c
                    /\ story.handles[h].data = story.objs[c].data
                    /\ story.datas[story.handles[h].data] = story.datas[story.objs[c].data]

\* "p" was registered twice, its data was then written through the
\* registry entry, and the registry's handle shows the written value.
C13_Witness ==
    /\ story.built = "yes"
    /\ story.characters["p"] # 0
    /\ \E c \in 1 .. Len(story.objs) : story.objs[c].id = "p" /\ c # story.characters["p"]
    /\ story.datas[story.objs[story.characters["p"]].data] = 1
    /\ story.datas[story.handles[story.characterFunctions["p"]].data] = 1

\* C15: once a story has been constructed with a renderer option that is
\* neither a renderer instance nor a configuration, the error hook has been
\* called (with InvalidRendererSelection).
C15_InvalidRendererSelection ==
    (story.built # "no" /\ story.rendererOpt \in InvalidRendererOpts) =>
        story.errors >= 1

\* C20: after construction and any registrations, the story's recorded
\* narrator is the character object now registered under "n".
C20_NarratorIsRegistered ==
    story.built = "yes" => story.narrator = story.characters["n"]

\* C16: when a scene run by goto() has settled with a scene identifier,
\* the next thing goto() does is call the scene-changed hook, once, and then
\* navigate to that identifier, so the hook comes after the settling and
\* before the identified scene's logic begins; the hook fires at no other
\* moment.
C16_SceneChangedOnce ==
    \A t \in Tasks :
        LET log == Log(t)
        IN  /\ tasks[t].op # "call" =>
                 \A i \in 1 .. Len(log) :
                     (log[i].e = "settle" /\ IsString(log[i].a) /\ Len(log) > i) =>
                         /\ Len(log) >= i + 2
                         /\ log[i + 1] = [e |-> "changed", a |-> Undef]
                         /\ log[i + 2] = [e |-> "goto", a |-> log[i].a]
                         /\ (Len(log) >= i + 3 /\ log[i + 3].e = "begin") =>
                                log[i + 3].a = log[i].a
            /\ \A k \in 1 .. Len(log) :
                   log[k].e = "changed" =>
                       /\ k > 1
                       /\ log[k - 1].e = "settle"
                       /\ IsString(log[k - 1].a)

\* Scene "start" returned "a" to goto(), the hook fired, and the logic of
\* "a" began after it and has settled.
C16_Witness ==
    \E t \in Tasks :
        /\ tasks[t].op = "goto"
        /\ Len(Log(t)) >= 9
        /\ Log(t)[4] = [e |-> "settle", a |-> Str("a")]
        /\ Log(t)[5].e = "changed"
        /\ Log(t)[7] = [e |-> "begin", a |-> Str("a")]
        /\ Log(t)[9].e = "settle"

\* C17: every resolution of one and the same menu descriptor object starts
\* with the same reserved entry: if one resolution has a reserved function
\* to run, so has every later one.
C17_ReservedEntryEveryTime ==
    \A t \in Tasks :
        LET log == Log(t)
        IN  \A i \in 1 .. Len(log) :
                \A j \in i + 1 .. Len(log) :
                    ( /\ log[i].e = "onMenu"
                      /\ log[j].e = "onMenu"
                      /\ log[i].a = log[j].a
                      /\ log[i].a.t = "object"
                      /\ log[i].a.v \in Descs ) =>
                        (ThenKindAt(log, i) = "fn" => ThenKindAt(log, j) = "fn")

\* C18: call(id) on a registered scene invokes that scene's logic once and
\* fulfils with what it settles with, whatever that is; it fires no
\* scene-changed, finished or error hook, runs no other scene and opens
\* no menu: its whole trace is begin, invoke, settle.
C18_CallOnly ==
    \A t \in Tasks :
        (tasks[t].op = "call" /\ tasks[t].arg.v \in Registered) =>
            LET log == Log(t)
                id == tasks[t].arg.v
            IN  /\ Len(log) \in {2, 3}
                /\ log[1] = [e |-> "begin", a |-> Str(id)]
                /\ log[2] = [e |-> "invoke", a |-> SceneGet(id)]
                /\ Len(log) = 3 => log[3].e = "settle"
                /\ tasks[t].out = (IF Len(log) = 3 THEN "fulfilled" ELSE "pending")
                /\ tasks[t].out = "fulfilled" => tasks[t].val = log[3].a
                /\ Len(tasks[t].stack) = (IF Len(log) = 3 THEN 0 ELSE 1)

\* call("start") has returned the scene identifier "a" and done nothing
\* else.
C18_Witness ==
    \E t \in Tasks :
        /\ tasks[t].op = "call"
        /\ tasks[t].arg = Str("start")
        /\ tasks[t].out = "fulfilled"
        /\ tasks[t].val = Str("a")

\* What follows the "menu" event at position i in a task's log.
AfterMenu(t, i) == SubSeq(Log(t), i + 1, Len(Log(t)))

\* What a menu resolution that produced no value consists of: the value,
\* and the reserved entry if it is a function.
NoValueMenu(t, i) ==
    <<"resolve">>
        \o (IF Log(t)[i].a = Str("fn") THEN <<"then_begin", "then_settle">> ELSE <<>>)

\* C14: with a renderer without onMenu, a menu resolution is that of a menu
\* that produced no value: the renderer is not asked, the value is
\* undefined, the reserved entry runs once if it is a function, nothing is
\* navigated to, the error hook is not called and the call fulfils; with a
\* renderer without onMessage, say returns undefined and throws nothing.
C14_AbsentOperations ==
    /\ ~hasOnMenu =>
           \A t \in Tasks :
               /\ tasks[t].out # "rejected" \/ ~Has(Log(t), "menu")
               /\ \A i \in 1 .. Len(Log(t)) :
                      Log(t)[i].e = "menu" =>
                          LET rest == AfterMenu(t, i)
                              want == NoValueMenu(t, i)
                          IN  /\ Len(rest) <= Len(want)
                              /\ \A k \in 1 .. Len(rest) : rest[k].e = want[k]
                              /\ Len(rest) >= 1 => rest[1].a = Undef
                              /\ tasks[t].out = "fulfilled" => Len(rest) = Len(want)
                              /\ (tasks[t].op = "menu" /\ Len(rest) = Len(want)) =>
                                     tasks[t].out = "fulfilled"
    /\ ~hasOnMessage => story.said.result \in {"none", "undefined"}

\* Without onMenu a descriptor with a reserved function has been resolved
\* to the end, and without onMessage a character has spoken.
C14_Witness ==
    /\ ~hasOnMenu
    /\ ~hasOnMessage
    /\ story.said.result = "undefined"
    /\ \E t \in Tasks :
           /\ tasks[t].op = "menu"
           /\ tasks[t].out = "fulfilled"
           /\ Has(Log(t), "then_settle")

\* start() has come to rest in one of the two ways it may: the finished
\* hook has fired, or an error the hook escalated has rejected the chain.
AtRest(t) ==
    \/ Has(Log(t), "finish") /\ tasks[t].out = "fulfilled"
    \/ Has(Log(t), "error") /\ tasks[t].out = "rejected"

====
